---------------------------- MODULE Spec2Model ----------------------------
(***************************************************************************)
(* A model of mapObject (map-object-ts): the compile-time contract that    *)
(* the generic parameters of mapObject impose on a call, and the run-time  *)
(* loop that builds the destination object.                                *)
(*                                                                         *)
(* Objects are sequences of [key, value] entries in insertion order, which *)
(* is the order Object.keys reports for string keys.  Source objects are   *)
(* plain records whose field names are not members of Object.prototype, so *)
(* the `in` operator and own-key membership coincide.                      *)
(***************************************************************************)
EXTENDS Integers, Sequences, FiniteSets, TLC

----------------------------------------------------------------------------
(* Bounds of the model *)

MaxSourceKeys == 2
MaxConfigKeys == 1
MaxExcluded == 1

NameOrder == <<"id", "name", "value">>
Names == {NameOrder[i] : i \in 1..Len(NameOrder)}
ValueIds == {1, 2}
MapperFunctions == {"constant", "size"}

(* The declared type of a field name, the same in every shape that has it. *)
FieldType(n) == IF n = "id" THEN "number" ELSE "string"

----------------------------------------------------------------------------
(* Run-time values and objects *)

Undefined == [type |-> "undefined", id |-> 0]

Value(t, i) == [type |-> t, id |-> i]

RECURSIVE SeqToSet(_)
SeqToSet(s) == IF s = <<>> THEN {} ELSE {Head(s)} \cup SeqToSet(Tail(s))

ObjectKeys(obj) == [i \in 1..Len(obj) |-> obj[i].key]

KeySet(obj) == {obj[i].key : i \in 1..Len(obj)}

In(k, obj) == \E i \in 1..Len(obj) : obj[i].key = k

Get(obj, k) ==
  IF In(k, obj)
  THEN obj[CHOOSE i \in 1..Len(obj) : obj[i].key = k].value
  ELSE Undefined

Put(obj, k, v) ==
  IF In(k, obj)
  THEN [i \in 1..Len(obj) |-> IF obj[i].key = k THEN [key |-> k, value |-> v] ELSE obj[i]]
  ELSE Append(obj, [key |-> k, value |-> v])

(* includes that looks at the last element only *)
IncludesLast(list, k) == list # <<>> /\ list[Len(list)] = k

Includes(list, k) == \E i \in 1..Len(list) : list[i] = k

(* [...new Set(seq)]: the first occurrence of every element, in order. *)
RECURSIVE Dedup(_, _)
Dedup(seq, seen) ==
  IF seq = <<>> THEN <<>>
  ELSE IF Head(seq) \in seen THEN Dedup(Tail(seq), seen)
  ELSE <<Head(seq)>> \o Dedup(Tail(seq), seen \cup {Head(seq)})

(* Caller-supplied transform functions: () => 'default' and             *)
(* (src) => Object.keys(src).length, as values of the model.            *)
Apply(fn, src) ==
  IF fn = "constant" THEN Value("string", 0) ELSE Value("number", 10 + Len(src))

ReturnTypeOf(fn) == IF fn = "constant" THEN "string" ELSE "number"

FunctionRule(fn) == [kind |-> "function", fn |-> fn, name |-> ""]
StringRule(n) == [kind |-> "string", fn |-> "", name |-> n]
NoRule == [kind |-> "undefined", fn |-> "", name |-> ""]


----------------------------------------------------------------------------
(* The static contract: object types are [keys, optional]; a union of      *)
(* string types is a set whose members are literal names or "string".      *)

Shape(keys, optional) == [keys |-> keys, optional |-> optional]

KeyOf(T) == T.keys

RequiredKeys(T) == {K \in KeyOf(T) : K \notin T.optional}

CommonProperties(TSrc, TDest) == KeyOf(TSrc) \cap KeyOf(TDest)

(* m extends U, for a member m and a union U of string types *)
Extends(m, U) == m \in U \/ "string" \in U

Exclude(T, U) == {m \in T : ~Extends(m, U)}

Extract(T, U) == {m \in T : Extends(m, U)}

Omit(T, K) == Shape(KeyOf(T) \ K, T.optional \ K)

TupleType(items) == [kind |-> "tuple", items |-> items]
StringArrayType == [kind |-> "array", items |-> <<>>]
UndefinedType == [kind |-> "undefined", items |-> <<>>]

ExtendsStringArray(E) == E.kind \in {"tuple", "array"}

(* E[number] *)
ElementType(E) == IF E.kind = "tuple" THEN SeqToSet(E.items) ELSE {"string"}

(* RequiredMapKeys without the exception for same-name fields *)
RequiredMapKeysAll(TSrc, TDest) == RequiredKeys(TDest)

RequiredMapKeys(TSrc, TDest) ==
  Exclude(RequiredKeys(TDest), {} \cup CommonProperties(TSrc, TDest))

RuleAssignable(rule, K, TSrc, TDest) ==
  \/ rule.kind = "string" /\ rule.name \in KeyOf(TSrc)
  \/ rule.kind = "function" /\ ReturnTypeOf(rule.fn) = FieldType(K)

(* mapConfiguration : MapConfiguration<TSource, TDestination> *)
ConfigAssignable(cfg, TSrc, TDest) ==
  /\ \A K \in RequiredMapKeys(TSrc, TDest) : In(K, cfg)
  /\ \A i \in 1..Len(cfg) :
       /\ cfg[i].key \in KeyOf(TDest)
       /\ RuleAssignable(cfg[i].value, cfg[i].key, TSrc, TDest)

(* ExtraKeys with its operands swapped *)
ExtraKeysSwapped(TSrc, TDest) == Exclude(KeyOf(TDest), KeyOf(TSrc))

ExtraKeys(TSrc, TDest) == Exclude(KeyOf(TSrc), KeyOf(TDest))

MissingKeys(Required, Provided) == Exclude(Required, ElementType(Provided))

ValidateArrayKeys(Required, Provided) ==
  IF MissingKeys(Required, Provided) = {}
  THEN [kind |-> "array", missing |-> {}]
  ELSE [kind |-> "error", missing |-> MissingKeys(Required, Provided)]

CheckExcluded(TSrc, TDest, ExcludedProps) ==
  IF ExtendsStringArray(ExcludedProps)
  THEN ValidateArrayKeys(Extract(ExtraKeys(TSrc, TDest), {"string"}), ExcludedProps)
  ELSE [kind |-> "array", missing |-> {}]

(* options : CheckExcluded extends readonly string[]                      *)
(*             ? MapperOptions<..., ExcludedProps> : CheckExcluded        *)
OptionsAssignable(opts, TSrc, TDest, ExcludedProps) ==
  /\ CheckExcluded(TSrc, TDest, ExcludedProps).kind = "array"
  /\ \/ ExcludedProps.kind = "tuple" /\ opts.form = "list" /\ opts.items = ExcludedProps.items
     \/ ExcludedProps.kind = "array" /\ opts.form = "list"
     \/ ExcludedProps.kind = "undefined" /\ opts.form = "noList"

(* sourceObject : TSource *)
SourceAssignable(src, TSrc) ==
  /\ RequiredKeys(TSrc) \subseteq KeySet(src)
  /\ KeySet(src) \subseteq KeyOf(TSrc)
  /\ \A i \in 1..Len(src) : src[i].value.type = FieldType(src[i].key)

(* A return type that is never pruned *)
ReturnTypeUnpruned(TDest, E) == TDest

(* The declared return type of mapObject *)
ReturnType(TDest, E) ==
  IF ExtendsStringArray(E)
  THEN IF Extract(ElementType(E), KeyOf(TDest)) = {}
       THEN TDest
       ELSE Omit(TDest, Extract(ElementType(E), KeyOf(TDest)))
  ELSE TDest

(* What the compiler reports for a call *)
Diagnostics(src, cfg, opts, TSrc, TDest, E) ==
  (IF SourceAssignable(src, TSrc) THEN {} ELSE {"sourceObject"})
  \cup (IF ConfigAssignable(cfg, TSrc, TDest) THEN {} ELSE {"mapConfiguration"})
  \cup (IF OptionsAssignable(opts, TSrc, TDest, E) THEN {} ELSE {"options"})

----------------------------------------------------------------------------
(* The run-time executor *)

ExcludedProperties(opts) ==
  IF opts.form # "undefined" /\ opts.form # "noKey"
  THEN (IF opts.form = "list" THEN opts.items ELSE <<>>)
  ELSE <<>>

(* PropertiesToProcess with the keys of the source first *)
PropertiesToProcessSourceFirst(cfg, src) == Dedup(ObjectKeys(src) \o ObjectKeys(cfg), {})

PropertiesToProcess(cfg, src) == Dedup(ObjectKeys(cfg) \o ObjectKeys(src), {})

Mapping(cfg, destKey) == IF In(destKey, cfg) THEN Get(cfg, destKey) ELSE NoRule

(* Branch without the same-name arm *)
BranchNoSameName(destKey, mapping, src, excluded) ==
  IF Includes(excluded, destKey) THEN "continue"
  ELSE IF mapping.kind = "function" THEN "function"
  ELSE IF mapping.kind = "string" /\ In(mapping.name, src) THEN "string"
  ELSE "unset"

(* Branch with the exclusion test after the explicit rules *)
BranchExcludeLast(destKey, mapping, src, excluded) ==
  IF mapping.kind = "function" THEN "function"
  ELSE IF mapping.kind = "string" /\ In(mapping.name, src) THEN "string"
  ELSE IF Includes(excluded, destKey) THEN "continue"
  ELSE IF In(destKey, src) THEN "same-name"
  ELSE "unset"

(* Which arm of the loop body a key takes *)
Branch(destKey, mapping, src, excluded) ==
  IF Includes(excluded, destKey) THEN "continue"
  ELSE IF mapping.kind = "function" THEN "function"
  ELSE IF mapping.kind = "string" /\ In(mapping.name, src) THEN "string"
  ELSE IF In(destKey, src) THEN "same-name"
  ELSE "unset"

Assigned(branch, destKey, mapping, src) ==
  IF branch = "function" THEN Apply(mapping.fn, src)
  ELSE IF branch = "string" THEN Get(src, mapping.name)
  ELSE Get(src, destKey)

ProcessKey(dest, destKey, cfg, src, excluded) ==
  LET mapping == Mapping(cfg, destKey)
      branch == Branch(destKey, mapping, src, excluded)
  IN IF branch \in {"continue", "unset"} THEN dest
     ELSE Put(dest, destKey, Assigned(branch, destKey, mapping, src))

RECURSIVE Loop(_, _, _, _, _)
Loop(dest, props, cfg, src, excluded) ==
  IF props = <<>> THEN dest
  ELSE Loop(ProcessKey(dest, Head(props), cfg, src, excluded), Tail(props), cfg, src, excluded)

(* The value a call returns (no transform of the model throws) *)
MapObject(src, cfg, opts) ==
  Loop(<<>>, PropertiesToProcess(cfg, src), cfg, src, ExcludedProperties(opts))

----------------------------------------------------------------------------
(* The calls the model makes *)

VARIABLES TSource, TDestination, ExcludeArrayType,
          sourceObject, mapConfiguration, options,
          pc, diagnostics, checkExcluded, resultType,
          excludedProperties, propertiesToProcess, idx, destination, calls, result

vars == <<TSource, TDestination, ExcludeArrayType,
          sourceObject, mapConfiguration, options,
          pc, diagnostics, checkExcluded, resultType,
          excludedProperties, propertiesToProcess, idx, destination, calls, result>>

inputs == <<TSource, TDestination, ExcludeArrayType,
            sourceObject, mapConfiguration, options>>

Entry(k, v) == [key |-> k, value |-> v]

Values(n) == {Value(FieldType(n), i) : i \in ValueIds}

Rules == {FunctionRule(fn) : fn \in MapperFunctions} \cup {StringRule(n) : n \in Names}

DistinctKeys(obj) == \A i, j \in 1..Len(obj) : obj[i].key = obj[j].key => i = j

(* Objects of at most max entries, in every key order *)
ObjectsOver(entries, max) ==
  UNION {{obj \in [1..n -> entries] : DistinctKeys(obj)} : n \in 0..max}

(* The names of K as a sequence, in the order of NameOrder *)
Listed(K) == LET Member(n) == n \in K IN SelectSeq(NameOrder, Member)

(* Source objects list their fields in the order of NameOrder. *)
SourceObjects ==
  {obj \in ObjectsOver(UNION {{Entry(n, v) : v \in Values(n)} : n \in Names}, MaxSourceKeys) :
     ObjectKeys(obj) = Listed(KeySet(obj))}

MapConfigurations ==
  ObjectsOver({Entry(n, r) : n \in Names, r \in Rules}, MaxConfigKeys)

Lists == UNION {[1..n -> Names] : n \in 0..MaxExcluded}

(* options: undefined, {}, {excludedProperties: undefined}, {excludedProperties: [...]} *)
OptionsOf(form, items) == [form |-> form, items |-> items]

OptionValues ==
  {OptionsOf(f, <<>>) : f \in {"undefined", "noKey", "noList"}}
  \cup {OptionsOf("list", l) : l \in Lists}

TypeInit ==
  /\ pc = "typecheck"
  /\ diagnostics = {}
  /\ checkExcluded = [kind |-> "array", missing |-> {}]
  /\ resultType = Shape({}, {})
  /\ excludedProperties = <<>>
  /\ propertiesToProcess = <<>>
  /\ idx = 0
  /\ destination = <<>>
  /\ calls = <<>>
  /\ result = <<>>

(* Any call the run-time code can receive; the type arguments are the     *)
(* types of the values passed (typeof source, a list passed as const).    *)
Init ==
  /\ sourceObject \in SourceObjects
  /\ mapConfiguration \in MapConfigurations
  /\ options \in OptionValues
  /\ TSource = Shape(KeySet(sourceObject), {})
  /\ TDestination \in {Shape(K, {}) : K \in {K \in SUBSET Names : KeySet(mapConfiguration) \subseteq K}}
  /\ ExcludeArrayType =
       IF options.form = "list" THEN TupleType(options.items) ELSE UndefinedType
  /\ TypeInit

Shapes(max) ==
  UNION {{Shape(K, O) : O \in SUBSET K} :
           K \in {X \in SUBSET Names : Cardinality(X) <= max}}

(* The values of type T: required fields present, optional ones possibly absent *)
ObjectsOfShape(T) ==
  {[i \in 1..Len(Listed(K)) |->
      Entry(Listed(K)[i], Value(FieldType(Listed(K)[i]), 1))] :
     K \in {K \in SUBSET KeyOf(T) : RequiredKeys(T) \subseteq K}}

ExcludeArrayTypes == {TupleType(l) : l \in Lists} \cup {StringArrayType, UndefinedType}

(* The option values of type MapperOptions<..., E> *)
OptionsOfType(E) ==
  IF E.kind = "tuple" THEN {OptionsOf("list", E.items)}
  ELSE IF E.kind = "array" THEN {OptionsOf("list", l) : l \in Lists}
  ELSE {OptionsOf("noList", <<>>)}

InitShapes ==
  /\ TSource \in Shapes(MaxSourceKeys)
  /\ TDestination \in Shapes(Cardinality(Names))
  /\ sourceObject \in ObjectsOfShape(TSource)

(* Typed calls that list every extra source field, with any configuration *)
InitConfigurations ==
  /\ InitShapes
  /\ mapConfiguration \in {cfg \in MapConfigurations : KeySet(cfg) \subseteq KeyOf(TDestination)}
  /\ ExcludeArrayType = TupleType(Listed(KeyOf(TSource) \ KeyOf(TDestination)))
  /\ options \in OptionsOfType(ExcludeArrayType)

(* Typed calls with any exclusion list type, without configuration *)
InitExclusions ==
  /\ InitShapes
  /\ mapConfiguration = <<>>
  /\ ExcludeArrayType \in ExcludeArrayTypes
  /\ options \in OptionsOfType(ExcludeArrayType)

InitStatic == (InitConfigurations \/ InitExclusions) /\ TypeInit

(* Calls whose objects list their keys in any order, with configurations  *)
(* of one key more than MaxConfigKeys, so that two transforms can meet.    *)
InitOrder ==
  /\ sourceObject \in ObjectsOver({Entry(n, Value(FieldType(n), 1)) : n \in Names}, MaxSourceKeys)
  /\ mapConfiguration \in ObjectsOver({Entry(n, r) : n \in Names, r \in Rules}, MaxConfigKeys + 1)
  /\ options \in {OptionsOf("list", l) : l \in Lists}
  /\ TSource = Shape(KeySet(sourceObject), {})
  /\ TDestination = Shape(Names, {})
  /\ ExcludeArrayType =
       IF options.form = "list" THEN TupleType(options.items) ELSE UndefinedType
  /\ TypeInit

(* The compiler checks the call; the emitted code runs whatever it says. *)
Typecheck ==
  /\ pc = "typecheck"
  /\ diagnostics' = Diagnostics(sourceObject, mapConfiguration, options,
                                TSource, TDestination, ExcludeArrayType)
  /\ checkExcluded' = CheckExcluded(TSource, TDestination, ExcludeArrayType)
  /\ resultType' = ReturnType(TDestination, ExcludeArrayType)
  /\ pc' = "call"
  /\ UNCHANGED <<inputs, excludedProperties, propertiesToProcess, idx,
                 destination, calls, result>>

Call ==
  /\ pc = "call"
  /\ excludedProperties' = ExcludedProperties(options)
  /\ destination' = <<>>
  /\ propertiesToProcess' = PropertiesToProcess(mapConfiguration, sourceObject)
  /\ idx' = 1
  /\ pc' = "loop"
  /\ UNCHANGED <<inputs, diagnostics, checkExcluded, resultType, calls, result>>

InLoop == pc = "loop" /\ idx <= Len(propertiesToProcess)

destKey == propertiesToProcess[idx]

CurrentBranch ==
  Branch(destKey, Mapping(mapConfiguration, destKey), sourceObject, excludedProperties)

Iterate(branch) ==
  /\ InLoop
  /\ CurrentBranch = branch
  /\ destination' = ProcessKey(destination, destKey, mapConfiguration,
                               sourceObject, excludedProperties)
  /\ idx' = idx + 1
  /\ UNCHANGED <<inputs, pc, diagnostics, checkExcluded, resultType,
                 excludedProperties, propertiesToProcess, result>>

SkipExcluded == Iterate("continue") /\ UNCHANGED calls

InvokeMapper ==
  /\ Iterate("function")
  /\ calls' = Append(calls, [key |-> destKey,
                             fn |-> Mapping(mapConfiguration, destKey).fn,
                             arg |-> sourceObject])

CopyMappedField == Iterate("string") /\ UNCHANGED calls

CopySameName == Iterate("same-name") /\ UNCHANGED calls

LeaveUnset == Iterate("unset") /\ UNCHANGED calls

Return ==
  /\ pc = "loop"
  /\ idx > Len(propertiesToProcess)
  /\ result' = destination
  /\ pc' = "done"
  /\ UNCHANGED <<inputs, diagnostics, checkExcluded, resultType,
                 excludedProperties, propertiesToProcess, idx, destination, calls>>

Next ==
  \/ Typecheck
  \/ Call
  \/ SkipExcluded
  \/ InvokeMapper
  \/ CopyMappedField
  \/ CopySameName
  \/ LeaveUnset
  \/ Return

Spec == Init /\ [][Next]_vars

SpecStatic == InitStatic /\ [][Next]_vars

SpecOrder == InitOrder /\ [][Next]_vars

(* The stepwise loop returns what MapObject computes. *)
ReturnsMapObject ==
  pc = "done" => result = MapObject(sourceObject, mapConfiguration, options)

----------------------------------------------------------------------------
(* Properties *)

Done == pc = "done"

Checked == pc # "typecheck"

Excluded(k) == Includes(ExcludedProperties(options), k)

Rule(k) == Mapping(mapConfiguration, k)

(* The fields of an object, whatever their order *)
Fields(obj) == {obj[i] : i \in 1..Len(obj)}

(* The value an explicit rule denotes: the transform applied to the source, *)
(* or the source's field of the referenced name                             *)
RuleResult(k) ==
  IF Rule(k).kind = "function" THEN Apply(Rule(k).fn, sourceObject)
  ELSE Get(sourceObject, Rule(k).name)

(* C1: for every non-excluded name k that is a key of sourceObject and of  *)
(* mapConfiguration, the result's k is the explicit rule's result (the      *)
(* transform's return value, or sourceObject[rule]), not the auto-copy.     *)
C1_MappingPrecedence ==
  Done => \A k \in Names :
            (In(k, sourceObject) /\ In(k, mapConfiguration) /\ ~Excluded(k))
              => Get(result, k) = RuleResult(k)

(* C2, as stated: a name k shared by the source value and the destination  *)
(* shape, without an entry in mapConfiguration, is a field of the result    *)
(* with the value sourceObject[k].                                          *)
C2_PassthroughAlways ==
  Done => \A k \in KeySet(sourceObject) \cap KeyOf(TDestination) :
            ~In(k, mapConfiguration)
              => In(k, result) /\ Get(result, k) = Get(sourceObject, k)

(* C2, amended: a name k shared by the source value and the destination    *)
(* shape, without an entry in mapConfiguration and not in the exclusion     *)
(* list, is a field of the result with the value sourceObject[k].           *)
C2_SameNamePassthrough ==
  Done => \A k \in KeySet(sourceObject) \cap KeyOf(TDestination) :
            (~In(k, mapConfiguration) /\ ~Excluded(k))
              => In(k, result) /\ Get(result, k) = Get(sourceObject, k)

C2_Witness ==
  /\ Done
  /\ \E k \in KeySet(sourceObject) \cap KeyOf(TDestination) :
       /\ ~In(k, mapConfiguration) /\ ~Excluded(k)
       /\ In(k, result)
       /\ \E j \in KeySet(sourceObject) : Get(sourceObject, j) # Get(sourceObject, k)

(* C3: a destination field named in excludedProperties is absent from the  *)
(* result, with or without a rule and with or without a source field of    *)
(* that name; a non-excluded field whose field-reference rule names an      *)
(* excluded source field is still produced, from that source field.         *)
C3_ExclusionRemovesFields ==
  Done =>
    /\ \A k \in KeyOf(TDestination) : Excluded(k) => ~In(k, result)
    /\ \A t \in Names :
         (/\ ~Excluded(t)
          /\ Rule(t).kind = "string"
          /\ Excluded(Rule(t).name)
          /\ In(Rule(t).name, sourceObject))
           => In(t, result) /\ Get(result, t) = Get(sourceObject, Rule(t).name)

C3_Witness ==
  /\ Done
  /\ \E k \in KeyOf(TDestination) :
       /\ Excluded(k) /\ In(k, sourceObject) /\ ~In(k, result)
       /\ \E t \in Names : /\ Rule(t).kind = "string" /\ Rule(t).name = k
                           /\ ~Excluded(t) /\ In(t, result)

(* The call with n appended to the exclusion list *)
WithExcluded(n) ==
  MapObject(sourceObject, mapConfiguration,
            OptionsOf("list", Append(ExcludedProperties(options), n)))

C5_MissingReferenceUnset ==
  Done => \A k \in Names :
            (/\ ~Excluded(k)
             /\ Rule(k).kind = "string"
             /\ ~In(Rule(k).name, sourceObject))
              => ~In(k, result)

----------------------------------------------------------------------------
(* Properties of the static contract *)

Accepted(argument) == argument \notin diagnostics

(* The names a literal exclusion list holds *)
ListedNames == {ExcludeArrayType.items[i] : i \in 1..Len(ExcludeArrayType.items)}

(* The source field names that are no destination field names *)
ExtraSourceFields == {n \in KeyOf(TSource) : n \notin KeyOf(TDestination)}

(* C6: with a literal exclusion list the options argument is accepted if    *)
(* and only if every source field name that is no destination field name is *)
(* in the list, and a rejection carries the missing names; without a        *)
(* literal list the check is skipped and any list is accepted.              *)
C6_CompletenessCheck ==
  Checked =>
    IF ExcludeArrayType.kind = "tuple"
    THEN /\ Accepted("options") <=> ExtraSourceFields \subseteq ListedNames
         /\ ~Accepted("options") =>
              /\ checkExcluded.kind = "error"
              /\ checkExcluded.missing = ExtraSourceFields \ ListedNames
              /\ checkExcluded.missing # {}
    ELSE Accepted("options") /\ checkExcluded.kind = "array"

C6_Witness ==
  /\ Checked
  /\ ExcludeArrayType.kind = "tuple"
  /\ ListedNames # {}
  /\ ~Accepted("options")
  /\ \E n \in ExtraSourceFields : n \in ListedNames

(* The required destination fields whose name is no source field name *)
R == {k \in KeyOf(TDestination) : k \notin TDestination.optional /\ k \notin KeyOf(TSource)}

RulesWellTyped ==
  \A i \in 1..Len(mapConfiguration) :
    RuleAssignable(mapConfiguration[i].value, mapConfiguration[i].key, TSource, TDestination)

(* C7: a configuration is accepted only if it has a rule for every member  *)
(* of R; one whose rules are well typed and that has a rule for every       *)
(* member of R is accepted whatever other destination fields it omits; a    *)
(* member of R named in the exclusion list still needs its rule.            *)
C7_RequiredMappingSet ==
  Checked =>
    /\ Accepted("mapConfiguration") => R \subseteq KeySet(mapConfiguration)
    /\ (R \subseteq KeySet(mapConfiguration) /\ RulesWellTyped) => Accepted("mapConfiguration")
    /\ \A k \in R : (ExcludeArrayType.kind = "tuple" /\ k \in ListedNames /\ ~In(k, mapConfiguration))
                       => ~Accepted("mapConfiguration")

C7_Witness ==
  /\ Checked
  /\ R # {}
  /\ Accepted("mapConfiguration")
  /\ \E k \in KeyOf(TDestination) \ R : ~In(k, mapConfiguration) /\ k \notin TDestination.optional
  /\ \E k \in TDestination.optional : ~In(k, mapConfiguration)

(* C8: a configuration is accepted only if every rule's value type is the  *)
(* type of its destination field: a field reference names a source field of *)
(* that type, a transform returns that type.                                *)
C8_RuleTypeMatch ==
  (Checked /\ Accepted("mapConfiguration")) =>
    \A i \in 1..Len(mapConfiguration) :
      LET k == mapConfiguration[i].key
          rule == mapConfiguration[i].value
      IN /\ rule.kind = "string" =>
              rule.name \in KeyOf(TSource) /\ FieldType(rule.name) = FieldType(k)
         /\ rule.kind = "function" => ReturnTypeOf(rule.fn) = FieldType(k)

(* C9: the static result shape is the destination shape without the fields  *)
(* that a literal exclusion list names; names that are no destination       *)
(* fields remove nothing, and without a literal list nothing is removed.    *)
C9_ResultShapePruning ==
  Checked =>
    IF ExcludeArrayType.kind = "tuple"
    THEN /\ KeyOf(resultType) = KeyOf(TDestination) \ ListedNames
         /\ resultType.optional = TDestination.optional \ ListedNames
         /\ (ListedNames \cap KeyOf(TDestination) = {}) => resultType = TDestination
    ELSE resultType = TDestination

C9_Witness ==
  /\ Checked
  /\ ExcludeArrayType.kind = "tuple"
  /\ ListedNames \cap KeyOf(TDestination) # {}
  /\ KeyOf(resultType) # {}
  /\ resultType # TDestination

(* C10: the value returned by a call the static contract accepts has every *)
(* required field of the static result shape and no field outside it.       *)
C10_StaticRuntimeAgree ==
  (Done /\ diagnostics = {}) =>
    /\ RequiredKeys(resultType) \subseteq KeySet(result)
    /\ KeySet(result) \subseteq KeyOf(resultType)

----------------------------------------------------------------------------
(* Properties of the processing order *)

Running == pc \in {"loop", "done"}

(* The names the loop has gone through so far, in the order it took them *)
Visited == SubSeq(propertiesToProcess, 1, idx - 1)

(* The keys of sourceObject that mapConfiguration does not have, in order *)
UnseenSourceKeys ==
  LET Unseen(n) == ~In(n, mapConfiguration)
  IN SelectSeq(ObjectKeys(sourceObject), Unseen)

CandidateOrder == ObjectKeys(mapConfiguration) \o UnseenSourceKeys

(* The keys of mapConfiguration with a transform rule that are not excluded, *)
(* in the order of mapConfiguration, up to the i-th key                      *)
TransformKeys(i) ==
  LET Invoked(n) == Rule(n).kind = "function" /\ ~Excluded(n)
  IN SelectSeq(SubSeq(ObjectKeys(mapConfiguration), 1, i), Invoked)

Min(a, b) == IF a < b THEN a ELSE b

(* C11: the loop goes through the keys of mapConfiguration and then the     *)
(* keys of sourceObject not seen before, each once and in that order; the    *)
(* transforms invoked are those of the non-excluded keys of mapConfiguration *)
(* gone through so far, in that order, each once, with sourceObject as       *)
(* argument; the transform of an excluded name is never invoked.             *)
C11_ProcessingOrder ==
  Running =>
    /\ propertiesToProcess = CandidateOrder
    /\ \A i, j \in 1..Len(propertiesToProcess) :
         propertiesToProcess[i] = propertiesToProcess[j] => i = j
    /\ Done => Visited = CandidateOrder
    /\ LET expected == TransformKeys(Min(idx - 1, Len(mapConfiguration)))
       IN /\ Len(calls) = Len(expected)
          /\ \A i \in 1..Len(calls) :
               /\ calls[i].key = expected[i]
               /\ calls[i].fn = Rule(expected[i]).fn
               /\ calls[i].arg = sourceObject
    /\ \A i \in 1..Len(calls) : ~Excluded(calls[i].key)

(* Two transforms invoked in the order of mapConfiguration, whose keys     *)
(* sourceObject lists in the opposite order                                *)
C11_Witness ==
  /\ Done
  /\ Len(calls) = 2
  /\ calls[1].fn # calls[2].fn
  /\ ObjectKeys(sourceObject) = <<calls[2].key, calls[1].key>>
  /\ Visited = <<calls[1].key, calls[2].key>>

----------------------------------------------------------------------------
(* Properties of extra source fields *)

(* The fields of sourceObject that are no destination fields *)
ExtraFields == KeySet(sourceObject) \ KeyOf(TDestination)

============================================================================
